---- MODULE Spec2Model ----
(***************************************************************************)
(* Model of yolo.py: the Raspberry PI camera pipeline (detect_picamera      *)
(* running concurrently with detect_picamera_yolo_thread_func over two      *)
(* queue.Queue(4) objects), the single-image loop detect_img, and three     *)
(* parts of YOLO.detect_image: the size handed to letterbox_image, the      *)
(* drawing loop over the detections and the rounding/clipping of a box.     *)
(* Each part has its own specification; the variables of the other parts    *)
(* stay at their idle values.                                               *)
(*                                                                          *)
(* Frames are identified by their capture sequence number 1, 2, 3, ...      *)
(* Every statement of the two threads that touches shared state is one      *)
(* atomic step; queue.Queue operations are atomic (they run under the       *)
(* queue's mutex), get() blocks while the queue is empty and put() blocks   *)
(* while a bounded queue is full.                                           *)
(***************************************************************************)
EXTENDS Integers, Sequences, FiniteSets, TLC

VARIABLES
    quit_thread,   \* module global quit_thread (line 26)
    cam_q,         \* cam_q = queue.Queue(4): frames waiting for the detector
    processed_q,   \* processed_q = queue.Queue(4): annotated frames to show
    ppc,           \* position of the main thread inside detect_picamera
    img,           \* local img of detect_picamera (0: none yet)
    captured,      \* frames yielded so far by camera.capture_continuous
    overflow,      \* branch taken at "if cam_q.full()" for the current frame
    ndrop,         \* frames the main thread discarded for the current frame
    nput,          \* frames the main thread has enqueued on cam_q
    sess_open,     \* yolo.sess is open (close_session not yet called)
    cpc,           \* position of each consumer thread
    cimg,          \* local img / r_image of each consumer thread
    lastDetected,  \* frame most recently passed to yolo.detect_image
    lastOverflow,  \* frame most recently enqueued by the overflow branch
    rpc,           \* position inside the box loop of YOLO.detect_image
    rsize,         \* image.size = <<width, height>>
    rbox,          \* box = <<top, left, bottom, right>>, in half pixels
    rdrawn,        \* <<left, top, right, bottom>> after rounding and clipping
    ipc,           \* position inside detect_img
    ipath,         \* argument img_path of detect_img
    iprompted,     \* input() was called for the coming Image.open
    iopens,        \* calls of Image.open made so far
    ifails,        \* calls of Image.open that raised so far
    lpc,           \* position inside the size selection of detect_image
    lmodel,        \* self.model_image_size = <<height, width>>
    lframe,        \* image.size = <<width, height>>
    lcanvas,       \* size handed to letterbox_image = <<width, height>>
    lplan,         \* resized size and padding computed by letterbox_image
    dpc,           \* position inside the drawing loop of detect_image
    dclasses,      \* out_classes
    dthick,        \* thickness
    dit,           \* items the loop has taken from the reversed enumeration
    di,            \* loop variable i
    dc,            \* loop variable c
    dj,            \* items the inner loop has taken from range(thickness)
    dbox,          \* index of the box read by box = out_boxes[i]
    dlog           \* detections drawn so far: <<box index, class>>

pvars == <<quit_thread, cam_q, processed_q, ppc, img, captured, overflow,
           ndrop, nput, sess_open, cpc, cimg, lastDetected, lastOverflow>>
rvars == <<rpc, rsize, rbox, rdrawn>>
ivars == <<ipc, ipath, iprompted, iopens, ifails>>
lvars == <<lpc, lmodel, lframe, lcanvas, lplan>>
dvars == <<dpc, dclasses, dthick, dit, di, dc, dj, dbox, dlog>>
xvars == <<ivars, lvars, dvars>>
vars == <<quit_thread, cam_q, processed_q, ppc, img, captured, overflow,
          ndrop, nput, sess_open, cpc, cimg, lastDetected, lastOverflow,
          rpc, rsize, rbox, rdrawn,
          ipc, ipath, iprompted, iopens, ifails,
          lpc, lmodel, lframe, lcanvas, lplan,
          dpc, dclasses, dthick, dit, di, dc, dj, dbox, dlog>>

----------------------------------------------------------------------------
(* Bounds of the model *)

\* frames the camera yields before the capture stream ends
MaxFrames == 11

\* largest frame width and height drawn on by detect_image
MaxDim == 2

\* how far, in half pixels, a raw box coordinate may lie outside the frame
BoxSlack == 3

\* calls of Image.open followed in detect_img
MaxOpens == 8

\* frame and model sizes reach up to one pixel beyond MaxUnits strides
MaxUnits == 2

\* detections returned for one image
MaxDet == 3

\* largest stroke thickness
MaxThick == 2

\* classes the detector knows
NumClasses == 2

----------------------------------------------------------------------------
(* queue.Queue(4) *)

\* maxsize of both queues
C == 4

\* Queue.full()
QFull(q) == Len(q) >= C

\* Queue.empty()
QEmpty(q) == Len(q) = 0

\* Queue.get() returns once the queue holds an item
QGetEnabled(q) == Len(q) > 0

QGetPeek(q) == [item |-> Head(q), rest |-> q]

QGetNewest(q) == [item |-> q[Len(q)], rest |-> SubSeq(q, 1, Len(q) - 1)]

\* Queue.get(): the oldest item is removed and returned
QGet(q) == [item |-> Head(q), rest |-> Tail(q)]

QPutUnbounded(q) == TRUE

\* Queue.put() returns once the queue holds fewer than maxsize items
QPutEnabled(q) == Len(q) < C

QPutKeepLatest(q, x) == <<x>>

\* Queue.put(): the item is appended
QPut(q, x) == Append(q, x)

----------------------------------------------------------------------------
(* threads *)

TwoConsumerThreads == {"processThread", "processThread2"}

\* the threads running detect_picamera_yolo_thread_func
ConsumerThreads == {"processThread"}

\* the threads that are inside yolo.detect_image
DetectCallers == {t \in ConsumerThreads : cpc[t] = "detect"}

\* positions of the main thread inside the try block of the capture loop
TryBody == {"full_check", "sleep", "drain_check", "drain_get", "put",
            "show_check", "show_get", "truncate"}

----------------------------------------------------------------------------
(* detect_picamera: the main thread (capture, overflow handling, display) *)

QFullEarly(q) == Len(q) >= C - 1

\* "if cam_q.full()" (line 266)
CamFull(q) == QFull(q)

DrainUntilNotFull(q) == QFull(q)

\* "while not cam_q.empty()" (line 268)
DrainContinue(q) == ~QEmpty(q)

ShowAlways(q) == TRUE

\* "while not processed_q.empty()" (line 271)
ShowContinue(q) == ~QEmpty(q)

\* for img_frame in camera.capture_continuous(...): img = Image.fromarray(...)
Capture ==
    /\ ppc = "capture"
    /\ captured < MaxFrames
    /\ captured' = captured + 1
    /\ img' = captured + 1
    /\ overflow' = FALSE
    /\ ndrop' = 0
    /\ ppc' = "full_check"
    /\ UNCHANGED <<rvars, xvars, quit_thread, cam_q, processed_q, nput, sess_open, cpc,
                   cimg, lastDetected, lastOverflow>>

\* the capture stream yields no further frame: the for loop ends
StreamEnd ==
    /\ ppc = "capture"
    /\ captured = MaxFrames
    /\ ppc' = "set_quit"
    /\ UNCHANGED <<rvars, xvars, quit_thread, cam_q, processed_q, img, captured, overflow,
                   ndrop, nput, sess_open, cpc, cimg, lastDetected,
                   lastOverflow>>

\* if cam_q.full():
FullCheck ==
    /\ ppc = "full_check"
    /\ overflow' = CamFull(cam_q)
    /\ ppc' = IF CamFull(cam_q) THEN "sleep" ELSE "put"
    /\ UNCHANGED <<rvars, xvars, quit_thread, cam_q, processed_q, img, captured, ndrop,
                   nput, sess_open, cpc, cimg, lastDetected, lastOverflow>>

\* time.sleep(1)
Sleep ==
    /\ ppc = "sleep"
    /\ ppc' = "drain_check"
    /\ UNCHANGED <<rvars, xvars, quit_thread, cam_q, processed_q, img, captured, overflow,
                   ndrop, nput, sess_open, cpc, cimg, lastDetected,
                   lastOverflow>>

\* while not cam_q.empty():
DrainCheck ==
    /\ ppc = "drain_check"
    /\ ppc' = IF DrainContinue(cam_q) THEN "drain_get" ELSE "put"
    /\ UNCHANGED <<rvars, xvars, quit_thread, cam_q, processed_q, img, captured, overflow,
                   ndrop, nput, sess_open, cpc, cimg, lastDetected,
                   lastOverflow>>

\* cam_q.get() of the drain loop: blocks while cam_q is empty
DrainGet ==
    /\ ppc = "drain_get"
    /\ QGetEnabled(cam_q)
    /\ cam_q' = QGet(cam_q).rest
    /\ ndrop' = ndrop + 1
    /\ ppc' = "drain_check"
    /\ UNCHANGED <<rvars, xvars, quit_thread, processed_q, img, captured, overflow, nput,
                   sess_open, cpc, cimg, lastDetected, lastOverflow>>

\* cam_q.put(img): blocks while cam_q is full
CamPut ==
    /\ ppc = "put"
    /\ QPutEnabled(cam_q)
    /\ cam_q' = QPut(cam_q, img)
    /\ nput' = nput + 1
    /\ lastOverflow' = IF overflow THEN img ELSE lastOverflow
    /\ ppc' = "show_check"
    /\ UNCHANGED <<rvars, xvars, quit_thread, processed_q, img, captured, overflow, ndrop,
                   sess_open, cpc, cimg, lastDetected>>

\* while not processed_q.empty():  ...  rawCapture.truncate(0) after the loop
ShowCheck ==
    /\ ppc = "show_check"
    /\ ppc' = IF ShowContinue(processed_q) THEN "show_get" ELSE "truncate"
    /\ UNCHANGED <<rvars, xvars, quit_thread, cam_q, processed_q, img, captured, overflow,
                   ndrop, nput, sess_open, cpc, cimg, lastDetected,
                   lastOverflow>>

\* cv2.imshow('picam', np.array(processed_q.get())); cv2.waitKey(1)
ShowGet ==
    /\ ppc = "show_get"
    /\ QGetEnabled(processed_q)
    /\ processed_q' = QGet(processed_q).rest
    /\ ppc' = "show_check"
    /\ UNCHANGED <<rvars, xvars, quit_thread, cam_q, img, captured, overflow, ndrop, nput,
                   sess_open, cpc, cimg, lastDetected, lastOverflow>>

\* rawCapture.truncate(0), then the next iteration of the for loop
Truncate ==
    /\ ppc = "truncate"
    /\ ppc' = "capture"
    /\ UNCHANGED <<rvars, xvars, quit_thread, cam_q, processed_q, img, captured, overflow,
                   ndrop, nput, sess_open, cpc, cimg, lastDetected,
                   lastOverflow>>

\* except KeyboardInterrupt: print('exiting...'); break
\* Ctrl-C is delivered to the main thread anywhere in the try block, also
\* while it waits inside a blocking queue operation or in time.sleep
KeyboardInterrupt ==
    /\ ppc \in TryBody
    /\ ppc' = "set_quit"
    /\ UNCHANGED <<rvars, xvars, quit_thread, cam_q, processed_q, img, captured, overflow,
                   ndrop, nput, sess_open, cpc, cimg, lastDetected,
                   lastOverflow>>

\* quit_thread = True
SetQuit ==
    /\ ppc = "set_quit"
    /\ quit_thread' = TRUE
    /\ ppc' = "join"
    /\ UNCHANGED <<rvars, xvars, cam_q, processed_q, img, captured, overflow, ndrop, nput,
                   sess_open, cpc, cimg, lastDetected, lastOverflow>>

JoinNoWait == TRUE

\* the thread function of every consumer thread has returned or was left by
\* an exception
ThreadsTerminated == \A t \in ConsumerThreads : cpc[t] \in {"done", "dead"}

\* processThread.join(): returns once the thread has terminated
Join ==
    /\ ppc = "join"
    /\ ThreadsTerminated
    /\ ppc' = "cleanup"
    /\ UNCHANGED <<rvars, xvars, quit_thread, cam_q, processed_q, img, captured, overflow,
                   ndrop, nput, sess_open, cpc, cimg, lastDetected,
                   lastOverflow>>

\* cv2.destroyAllWindows(); yolo.close_session()
Cleanup ==
    /\ ppc = "cleanup"
    /\ sess_open' = FALSE
    /\ ppc' = "done"
    /\ UNCHANGED <<rvars, xvars, quit_thread, cam_q, processed_q, img, captured, overflow,
                   ndrop, nput, cpc, cimg, lastDetected, lastOverflow>>

----------------------------------------------------------------------------
(* detect_picamera_yolo_thread_func: the consumer thread *)

\* while not quit_thread:
While(t) ==
    /\ cpc[t] = "while"
    /\ cpc' = [cpc EXCEPT ![t] = IF quit_thread THEN "done" ELSE "get"]
    /\ UNCHANGED <<rvars, xvars, quit_thread, cam_q, processed_q, ppc, img, captured,
                   overflow, ndrop, nput, sess_open, cimg, lastDetected,
                   lastOverflow>>

\* img = cam_queue.get(): blocks while cam_q is empty; then detect_image
\* is entered with img
CamGet(t) ==
    /\ cpc[t] = "get"
    /\ QGetEnabled(cam_q)
    /\ cimg' = [cimg EXCEPT ![t] = QGet(cam_q).item]
    /\ cam_q' = QGet(cam_q).rest
    /\ lastDetected' = QGet(cam_q).item
    /\ cpc' = [cpc EXCEPT ![t] = "detect"]
    /\ UNCHANGED <<rvars, xvars, quit_thread, processed_q, ppc, img, captured, overflow,
                   ndrop, nput, sess_open, lastOverflow>>

\* r_image = yolo.detect_image(img, False) returns the annotated frame
Detect(t) ==
    /\ cpc[t] = "detect"
    /\ cpc' = [cpc EXCEPT ![t] = "put"]
    /\ UNCHANGED <<rvars, xvars, quit_thread, cam_q, processed_q, ppc, img, captured,
                   overflow, ndrop, nput, sess_open, cimg, lastDetected,
                   lastOverflow>>

\* out_queue.put(r_image): blocks while processed_q is full
OutPut(t) ==
    /\ cpc[t] = "put"
    /\ QPutEnabled(processed_q)
    /\ processed_q' = QPut(processed_q, cimg[t])
    /\ cpc' = [cpc EXCEPT ![t] = "while"]
    /\ UNCHANGED <<rvars, xvars, quit_thread, cam_q, ppc, img, captured, overflow, ndrop,
                   nput, sess_open, cimg, lastDetected, lastOverflow>>

----------------------------------------------------------------------------
(* exceptions other than KeyboardInterrupt *)

\* Image.fromarray(img_frame.array) raises for the frame just yielded: the
\* try block has no handler for it, the exception leaves detect_picamera
FrameFails ==
    /\ ppc = "capture"
    /\ captured < MaxFrames
    /\ captured' = captured + 1
    /\ ppc' = "crashed"
    /\ UNCHANGED <<rvars, xvars, quit_thread, cam_q, processed_q, img, overflow,
                   ndrop, nput, sess_open, cpc, cimg, lastDetected,
                   lastOverflow>>

\* cv2.imshow / np.array raises for the result just dequeued: the exception
\* leaves detect_picamera
ShowFails ==
    /\ ppc = "show_get"
    /\ QGetEnabled(processed_q)
    /\ processed_q' = QGet(processed_q).rest
    /\ ppc' = "crashed"
    /\ UNCHANGED <<rvars, xvars, quit_thread, cam_q, img, captured, overflow,
                   ndrop, nput, sess_open, cpc, cimg, lastDetected,
                   lastOverflow>>

\* yolo.detect_image raises (self.sess.run fails): the thread function has
\* no handler, the exception ends the thread
DetectRaises(t) ==
    /\ cpc[t] = "detect"
    /\ cpc' = [cpc EXCEPT ![t] = "dead"]
    /\ UNCHANGED <<rvars, xvars, quit_thread, cam_q, processed_q, ppc, img,
                   captured, overflow, ndrop, nput, sess_open, cimg,
                   lastDetected, lastOverflow>>

----------------------------------------------------------------------------
(* the camera pipeline *)

\* detect_picamera up to processThread.start(): both queues are empty, the
\* consumer thread is about to evaluate its loop condition
InitPipeline ==
    /\ quit_thread = FALSE
    /\ cam_q = <<>>
    /\ processed_q = <<>>
    /\ ppc = "capture"
    /\ img = 0
    /\ captured = 0
    /\ overflow = FALSE
    /\ ndrop = 0
    /\ nput = 0
    /\ sess_open = TRUE
    /\ cpc = [t \in ConsumerThreads |-> "while"]
    /\ cimg = [t \in ConsumerThreads |-> 0]
    /\ lastDetected = 0
    /\ lastOverflow = 0

\* no box is being drawn
RenderIdle ==
    /\ rpc = "idle"
    /\ rsize = <<0, 0>>
    /\ rbox = <<0, 0, 0, 0>>
    /\ rdrawn = [top |-> 0, left |-> 0, bottom |-> 0, right |-> 0]

\* detect_img is not running
ImgIdle ==
    /\ ipc = "idle"
    /\ ipath = ""
    /\ iprompted = FALSE
    /\ iopens = 0
    /\ ifails = 0

\* no size is being selected
CanvasIdle ==
    /\ lpc = "idle"
    /\ lmodel = <<0, 0>>
    /\ lframe = <<0, 0>>
    /\ lcanvas = <<0, 0>>
    /\ lplan = [resized |-> <<0, 0>>, padding |-> <<0, 0>>]

\* no detection list is being drawn
LoopIdle ==
    /\ dpc = "idle"
    /\ dclasses = <<>>
    /\ dthick = 0
    /\ dit = 0
    /\ di = 0
    /\ dc = 0
    /\ dj = 0
    /\ dbox = 0
    /\ dlog = <<>>

\* the steps of the main thread other than the delivery of Ctrl-C
ProducerStep ==
    \/ Capture
    \/ StreamEnd
    \/ FullCheck
    \/ Sleep
    \/ DrainCheck
    \/ DrainGet
    \/ CamPut
    \/ ShowCheck
    \/ ShowGet
    \/ Truncate
    \/ SetQuit
    \/ Join
    \/ Cleanup

ConsumerStep(t) ==
    \/ While(t)
    \/ CamGet(t)
    \/ Detect(t)
    \/ OutPut(t)

Init == InitPipeline /\ RenderIdle /\ ImgIdle /\ CanvasIdle /\ LoopIdle

Next ==
    \/ ProducerStep
    \/ KeyboardInterrupt
    \/ \E t \in ConsumerThreads : ConsumerStep(t)

Spec == Init /\ [][Next]_vars

\* the pipeline with failing frames and a failing detector
NextFail ==
    \/ Next
    \/ FrameFails
    \/ ShowFails
    \/ \E t \in ConsumerThreads : DetectRaises(t)

SpecFail == Init /\ [][NextFail]_vars

\* the interpreter keeps scheduling every thread that is able to run; Ctrl-C
\* is the user's choice and is not forced
FairSpec ==
    /\ Spec
    /\ WF_vars(ProducerStep)
    /\ \A t \in ConsumerThreads : WF_vars(ConsumerStep(t))

----------------------------------------------------------------------------
(* YOLO.detect_image: rounding and clipping of one detection box *)

Max(a, b) == IF a >= b THEN a ELSE b

Min(a, b) == IF a <= b THEN a ELSE b

\* np.floor(x + 0.5).astype('int32') of the coordinate x = x2 / 2
RoundHalfUp(x2) == (x2 + 1) \div 2

\* lines 142-146: top and left are clipped at 0 only, bottom and right at
\* the image height and width only
ClipBox(box, size) ==
    [top    |-> Max(0, RoundHalfUp(box[1])),
     left   |-> Max(0, RoundHalfUp(box[2])),
     bottom |-> Min(size[2], RoundHalfUp(box[3])),
     right  |-> Min(size[1], RoundHalfUp(box[4]))]

\* raw coordinates, in half pixels, reaching BoxSlack beyond the largest frame
Coords == (0 - BoxSlack) .. (2 * MaxDim + BoxSlack)

\* boxes as yolo_eval returns them: top <= bottom and left <= right, anywhere
\* relative to the frame
RawBoxes ==
    {b \in Coords \X Coords \X Coords \X Coords : b[1] <= b[3] /\ b[2] <= b[4]}

\* out_boxes = self.sess.run(...): the detector returns a box
Infer ==
    /\ rpc = "infer"
    /\ \E b \in RawBoxes : rbox' = b
    /\ rpc' = "box"
    /\ UNCHANGED <<pvars, xvars, rsize, rdrawn>>

\* top, left, bottom, right = box and the four max/min lines
DrawBox ==
    /\ rpc = "box"
    /\ rdrawn' = ClipBox(rbox, rsize)
    /\ rpc' = "drawn"
    /\ UNCHANGED <<pvars, xvars, rsize, rbox>>

\* detect_image is called with an image of some size
InitRender ==
    /\ InitPipeline
    /\ ImgIdle
    /\ CanvasIdle
    /\ LoopIdle
    /\ rpc = "infer"
    /\ rsize \in (1..MaxDim) \X (1..MaxDim)
    /\ rbox = <<0, 0, 0, 0>>
    /\ rdrawn = [top |-> 0, left |-> 0, bottom |-> 0, right |-> 0]

RenderNext ==
    \/ Infer
    \/ DrawBox

SpecRender == InitRender /\ [][RenderNext]_vars

----------------------------------------------------------------------------
(* detect_img: the single-image path *)

\* if img_path == '': img = input('Input image filename:')  else: img = img_path
ChooseName ==
    /\ ipc = "top"
    /\ iprompted' = (ipath = "")
    /\ ipc' = "open"
    /\ UNCHANGED <<pvars, rvars, lvars, dvars, ipath, iopens, ifails>>

\* Image.open(img) raises: print('Open Error! Try again!'); continue
OpenFails ==
    /\ ipc = "open"
    /\ iopens < MaxOpens
    /\ iopens' = iopens + 1
    /\ ifails' = ifails + 1
    /\ ipc' = "top"
    /\ UNCHANGED <<pvars, rvars, lvars, dvars, ipath, iprompted>>

\* Image.open(img) returns the image
OpenOk ==
    /\ ipc = "open"
    /\ iopens < MaxOpens
    /\ iopens' = iopens + 1
    /\ ipc' = "process"
    /\ UNCHANGED <<pvars, rvars, lvars, dvars, ipath, iprompted, ifails>>

\* else: detect_image, imshow, waitKey(0), destroyAllWindows; then
\* "if img_path != '': break"
Process ==
    /\ ipc = "process"
    /\ ipc' = IF ipath # "" THEN "close" ELSE "top"
    /\ UNCHANGED <<pvars, rvars, lvars, dvars, ipath, iprompted, iopens, ifails>>

\* yolo.close_session() after the loop
CloseAfterImg ==
    /\ ipc = "close"
    /\ sess_open' = FALSE
    /\ ipc' = "done"
    /\ UNCHANGED <<rvars, lvars, dvars, ipath, iprompted, iopens, ifails,
                   quit_thread, cam_q, processed_q, ppc, img, captured,
                   overflow, ndrop, nput, cpc, cimg, lastDetected,
                   lastOverflow>>

\* detect_img(yolo, img_path) is called with an empty or a non-empty path
InitImg ==
    /\ InitPipeline
    /\ RenderIdle
    /\ CanvasIdle
    /\ LoopIdle
    /\ ipc = "top"
    /\ ipath \in {"", "image.jpg"}
    /\ iprompted = FALSE
    /\ iopens = 0
    /\ ifails = 0

ImgNext ==
    \/ ChooseName
    \/ OpenFails
    \/ OpenOk
    \/ Process
    \/ CloseAfterImg

SpecImg == InitImg /\ [][ImgNext]_vars

----------------------------------------------------------------------------
(* YOLO.detect_image: the size handed to letterbox_image, and its plan *)

\* the detector's stride: 'Multiples of 32 required'
Stride == 32

\* the value None of a dimension of model_image_size
None == 0 - 1

\* sizes next to a multiple of the stride
NearStride == {d \in 1..(Stride * MaxUnits + 1) : d % Stride \in {0, 1, Stride - 1}}

\* values of a dimension of self.model_image_size when it is fixed
ModelDims == NearStride \cup {416}

\* values of image.width and image.height
FrameDims == NearStride \cup {2, 3, 100, 200}

SizeOkFirstOnly(m) == m[1] % Stride = 0

\* the two assertions of lines 100-101 pass
SizeOk(m) == m[1] % Stride = 0 /\ m[2] % Stride = 0

\* tuple(reversed(self.model_image_size)): <<height, width>> to <<width, height>>
Reversed(m) == <<m[2], m[1]>>

\* (image.width - (image.width % 32), image.height - (image.height % 32))
AutoSize(f) == <<f[1] - (f[1] % Stride), f[2] - (f[2] % Stride)>>

\* p / q rounded to the nearest integer, halves upwards (q > 0)
RoundRat(p, q) == (2 * p + q) \div (2 * q)

ScaleMax(f, c) == IF c[1] * f[2] >= c[2] * f[1] THEN <<c[1], f[1]>> ELSE <<c[2], f[2]>>

\* scale = min(canvasWidth / frameWidth, canvasHeight / frameHeight), as
\* <<numerator, denominator>>
Scale(f, c) == IF c[1] * f[2] <= c[2] * f[1] THEN <<c[1], f[1]>> ELSE <<c[2], f[2]>>

\* resizedSize = round(frameSize * scale)
ResizedSize(f, c) ==
    <<RoundRat(f[1] * Scale(f, c)[1], Scale(f, c)[2]),
      RoundRat(f[2] * Scale(f, c)[1], Scale(f, c)[2])>>

\* padding = floor((canvasSize - resizedSize) / 2) per axis
LetterboxPlan(f, c) ==
    [resized |-> ResizedSize(f, c),
     padding |-> <<(c[1] - ResizedSize(f, c)[1]) \div 2,
                   (c[2] - ResizedSize(f, c)[2]) \div 2>>]

\* lines 99-106 up to the argument of letterbox_image: a failing assertion
\* leaves detect_image
SelectSize ==
    /\ lpc = "size"
    /\ IF lmodel # <<None, None>>
          THEN IF SizeOk(lmodel)
                  THEN lcanvas' = Reversed(lmodel) /\ lpc' = "letterbox"
                  ELSE lcanvas' = lcanvas /\ lpc' = "assert_failed"
          ELSE lcanvas' = AutoSize(lframe) /\ lpc' = "letterbox"
    /\ UNCHANGED <<pvars, rvars, ivars, dvars, lmodel, lframe, lplan>>

\* boxed_image = letterbox_image(image, size)
Letterbox ==
    /\ lpc = "letterbox"
    /\ lplan' = LetterboxPlan(lframe, lcanvas)
    /\ lpc' = "infer"
    /\ UNCHANGED <<pvars, rvars, ivars, dvars, lmodel, lframe, lcanvas>>

\* self.sess.run(...) with the letterboxed image
RunDetector ==
    /\ lpc = "infer"
    /\ lpc' = "done"
    /\ UNCHANGED <<pvars, rvars, ivars, dvars, lmodel, lframe, lcanvas, lplan>>

\* detect_image is called with an image of some size, model_image_size
\* being a fixed size or (None, None)
InitCanvas ==
    /\ InitPipeline
    /\ RenderIdle
    /\ ImgIdle
    /\ LoopIdle
    /\ lpc = "size"
    /\ lmodel \in (ModelDims \X ModelDims) \cup {<<None, None>>}
    /\ lframe \in FrameDims \X FrameDims
    /\ lcanvas = <<0, 0>>
    /\ lplan = [resized |-> <<0, 0>>, padding |-> <<0, 0>>]

CanvasNext ==
    \/ SelectSize
    \/ Letterbox
    \/ RunDetector

SpecCanvas == InitCanvas /\ [][CanvasNext]_vars

----------------------------------------------------------------------------
(* YOLO.detect_image: the drawing loop over the detections *)

\* the lists out_classes may be
ClassLists ==
    UNION {[1..n -> 0..(NumClasses - 1)] : n \in 0..MaxDet}

IndexFromI(it, i, n) == IF it = 0 THEN n - 1 ELSE i - 1

\* the index in the item that reversed(list(enumerate(out_classes))) yields
\* after it items: the list is built before the loop starts, the value the
\* loop body left in i plays no part
ItemIndex(it, i, n) == n - 1 - it

\* the class in that item
ItemClass(it) == dclasses[Len(dclasses) - it]

\* for i, c in reversed(list(enumerate(out_classes))):
LoopNext ==
    /\ dpc = "next"
    /\ IF dit < Len(dclasses)
          THEN /\ di' = ItemIndex(dit, di, Len(dclasses))
               /\ dc' = ItemClass(dit)
               /\ dit' = dit + 1
               /\ dpc' = "read"
          ELSE /\ dpc' = "done"
               /\ UNCHANGED <<di, dc, dit>>
    /\ UNCHANGED <<pvars, rvars, ivars, lvars, dclasses, dthick, dj, dbox, dlog>>

\* box = out_boxes[i]; score = out_scores[i]; label, rounding and clipping
ReadBox ==
    /\ dpc = "read"
    /\ dbox' = di
    /\ dj' = 0
    /\ dpc' = "stroke"
    /\ UNCHANGED <<pvars, rvars, ivars, lvars, dclasses, dthick, dit, di, dc, dlog>>

\* for i in range(thickness): draw.rectangle([left + i, ...], outline=colors[c])
Stroke ==
    /\ dpc = "stroke"
    /\ IF dj < dthick
          THEN di' = dj /\ dj' = dj + 1 /\ dpc' = "stroke"
          ELSE di' = di /\ dj' = dj /\ dpc' = "label"
    /\ UNCHANGED <<pvars, rvars, ivars, lvars, dclasses, dthick, dit, dc, dbox, dlog>>

\* draw.rectangle(label background, fill=colors[c]); draw.text(label)
Label ==
    /\ dpc = "label"
    /\ dlog' = Append(dlog, <<dbox, dc>>)
    /\ dpc' = "next"
    /\ UNCHANGED <<pvars, rvars, ivars, lvars, dclasses, dthick, dit, di, dc, dj, dbox>>

\* the detector has returned out_classes for an image whose size gives
\* some thickness
InitLoop ==
    /\ InitPipeline
    /\ RenderIdle
    /\ ImgIdle
    /\ CanvasIdle
    /\ dpc = "next"
    /\ dclasses \in ClassLists
    /\ dthick \in 0..MaxThick
    /\ dit = 0
    /\ di = 0
    /\ dc = 0
    /\ dj = 0
    /\ dbox = 0
    /\ dlog = <<>>

DrawLoopNext ==
    \/ LoopNext
    \/ ReadBox
    \/ Stroke
    \/ Label

SpecLoop == InitLoop /\ [][DrawLoopNext]_vars

----------------------------------------------------------------------------
(* waiting threads *)

\* the main thread is inside cam_q.get() (line 269) and cam_q is empty
ProducerWaitsCamQ == ppc = "drain_get" /\ ~QGetEnabled(cam_q)

\* thread t is inside cam_queue.get() (line 289) and cam_q is empty
ConsumerWaitsCamQ(t) == cpc[t] = "get" /\ ~QGetEnabled(cam_q)

\* thread t is inside out_queue.put() (line 291) and processed_q is full
ConsumerWaitsOut(t) == cpc[t] = "put" /\ ~QPutEnabled(processed_q)

----------------------------------------------------------------------------
(* Properties *)

\* C1: in every reachable state cam_q and processed_q each hold at most
\* C = 4 items.
C1_QueuesBounded == Len(cam_q) <= C /\ Len(processed_q) <= C

\* C1 witness: cam_q is full while the main thread holds a further frame and
\* the consumer holds a further result.
C1_FullWithMorePending ==
    /\ Len(cam_q) = C
    /\ ppc = "sleep"
    /\ \E t \in ConsumerThreads : cpc[t] = "put"

\* C2: once quit_thread is True the consumer thread eventually terminates and
\* the main thread gets past processThread.join().
C2_TimelyShutdown ==
    quit_thread ~> ((\A t \in ConsumerThreads : cpc[t] = "done") /\ ppc = "done")

\* C3: no reachable state has the main thread waiting on cam_q while the
\* consumer is also waiting on cam_q.
C3_NoMutualWait ==
    ~(ProducerWaitsCamQ /\ \E t \in ConsumerThreads : ConsumerWaitsCamQ(t))

C5_OverflowPolicy ==
    [][(ppc = "put" /\ ppc' = "show_check")
          => IF overflow
                THEN cam_q' = <<img>>
                ELSE cam_q' = Append(cam_q, img) /\ ndrop = 0]_vars

\* C5 witness: directly after an overflow enqueue that discarded a full queue.
C5_AfterOverflow ==
    overflow /\ ppc = "show_check" /\ ndrop = C /\ cam_q = <<img>>

\* C6 as stated: with no frame dequeued by the consumer, after the enqueue of
\* the 10th frame cam_q holds exactly 1 frame.
C6_TenFramesLeaveOne ==
    (nput = 10 /\ lastDetected = 0) => Len(cam_q) = 1

\* C6 amended: with no frame dequeued by the consumer, after the enqueue of
\* the 10th frame cam_q holds exactly 2 frames, the 9th and the 10th.
C6_TenFramesLeaveTwo ==
    (nput = 10 /\ lastDetected = 0) => cam_q = <<9, 10>>

\* C6 witness: ten frames enqueued and none dequeued by the consumer.
C6_TenFramesNoConsumer == nput = 10 /\ lastDetected = 0

C8_ConsumerOrder ==
    [][\A t \in ConsumerThreads :
          (cpc[t] = "get" /\ cpc'[t] = "detect") => cimg'[t] > lastDetected]_vars

\* C8 witness: the consumer processes a frame that does not directly follow
\* the one it processed before (frames in between were discarded).
C8_ProcessingAfterGap ==
    \E t \in ConsumerThreads :
        /\ cpc[t] = "detect"
        /\ processed_q # <<>>
        /\ cimg[t] > processed_q[Len(processed_q)] + 1

\* C9: at most one invocation of detect_image is in progress, and the main
\* thread (capture and presentation) is never inside it.
C9_DetectorExclusive ==
    /\ Cardinality(DetectCallers) <= 1
    /\ ppc # "detect"

\* C9 witness: the consumer is inside detect_image while the main thread is
\* discarding frames.
C9_DetectingWhileDraining ==
    ppc = "drain_get" /\ DetectCallers # {}

\* C10: the coordinates drawn for a box satisfy 0 <= left <= right <= width
\* and 0 <= top <= bottom <= height.
C10_ClippingInvariant ==
    rpc = "drawn" =>
        /\ 0 <= rdrawn.left /\ rdrawn.left <= rdrawn.right
        /\ rdrawn.right <= rsize[1]
        /\ 0 <= rdrawn.top /\ rdrawn.top <= rdrawn.bottom
        /\ rdrawn.bottom <= rsize[2]

\* C11: once the detector has raised inside the consumer, the main thread
\* captures no further frame.
C11_DetectorFailureStopsCapture ==
    [][(\E t \in ConsumerThreads : cpc[t] = "dead")
          => captured' = captured]_vars

\* C13: the presentation loop never waits inside processed_q.get(), and when
\* it finds processed_q empty its next step leaves the loop.
C13_PresentationNeverWaits ==
    /\ [](~(ppc = "show_get" /\ ~QGetEnabled(processed_q)))
    /\ [][(ppc = "show_check" /\ QEmpty(processed_q) /\ ppc' # ppc)
              => ppc' \in {"truncate", "set_quit"}]_vars

\* C13 witness: the main thread is about to dequeue a result while another
\* result has been queued behind it and the consumer holds a third.
C13_ShowingWhileConsumerPuts ==
    /\ ppc = "show_get"
    /\ Len(processed_q) >= 2
    /\ \E t \in ConsumerThreads : cpc[t] = "put"

\* C14: a failure in the handling of one frame never takes the main thread
\* out of the capture loop.
C14_FrameFailureNotFatal == ppc # "crashed"

\* C18: the session is closed only after quit_thread was set and every
\* consumer thread has terminated, no consumer is inside detect_image with
\* the session closed, and cam_q does not grow once quit_thread is set.
C18_ReleaseOrder ==
    /\ [](~sess_open => (quit_thread /\ ThreadsTerminated /\ DetectCallers = {}))
    /\ [][quit_thread => Len(cam_q') <= Len(cam_q)]_vars

\* C18 witness: the session has been closed after frames were enqueued and
\* processed.
C18_ClosedAfterWork == ~sess_open /\ nput > 0 /\ lastDetected > 0

\* C12: every call of Image.open that follows a failed one is preceded by a
\* prompt for a filename, and for a non-empty path the loop is left, and the
\* session closed, only after an image was opened and processed.
C12_RepromptAfterOpenFailure ==
    /\ [][(iopens' = iopens + 1 /\ ifails > 0) => iprompted]_vars
    /\ [][(ipc' = "close" /\ ipc # "close") => (ipc = "process" /\ ipath # "")]_vars
    /\ [](~sess_open => ipc = "done")

\* C15: letterbox_image and the detector are reached only with a size whose
\* width and height are multiples of 32; a fixed model_image_size with a
\* dimension that is no multiple of 32 ends detect_image before letterboxing;
\* with (None, None) the size is the frame's width and height each rounded
\* down to a multiple of 32.
C15_CanvasValidated ==
    /\ lpc \in {"letterbox", "infer", "done"}
          => /\ lcanvas[1] % 32 = 0 /\ lcanvas[2] % 32 = 0
             /\ lmodel # <<None, None>> => lcanvas = <<lmodel[2], lmodel[1]>>
             /\ lmodel = <<None, None>>
                   => /\ lcanvas = <<32 * (lframe[1] \div 32), 32 * (lframe[2] \div 32)>>
    /\ (lpc # "size" /\ lmodel # <<None, None>>
           /\ (lmodel[1] % 32 # 0 \/ lmodel[2] % 32 # 0))
          => /\ lpc = "assert_failed"
             /\ lplan = [resized |-> <<0, 0>>, padding |-> <<0, 0>>]

\* C15 witness: a fixed size whose second dimension alone is no multiple of
\* 32 has ended detect_image.
C15_SecondDimensionRejected ==
    /\ lpc = "assert_failed"
    /\ lmodel[1] % 32 = 0
    /\ lmodel[2] % 32 # 0

\* C16: for a frame of at least 1x1 and a size of positive multiples of 32
\* the plan has resizedSize <= size and padding >= 0 on both axes; a 100x200
\* frame into 416x416 gives resizedSize (208,416) and padding (104,0).
C16_LetterboxPlanBound ==
    (lpc \in {"infer", "done"} /\ lcanvas[1] > 0 /\ lcanvas[2] > 0)
        => /\ lplan.resized[1] <= lcanvas[1]
           /\ lplan.resized[2] <= lcanvas[2]
           /\ lplan.padding[1] >= 0
           /\ lplan.padding[2] >= 0
           /\ (lframe = <<100, 200>> /\ lcanvas = <<416, 416>>)
                 => /\ lplan.resized = <<208, 416>>
                    /\ lplan.padding = <<104, 0>>

\* C16 witness: the plan of a 100x200 frame into 416x416 has been computed.
C16_ExamplePlanned ==
    lpc = "done" /\ lframe = <<100, 200>> /\ lcanvas = <<416, 416>>

\* C17: the detections are drawn in the order n-1, n-2, ..., 0, each with
\* its own box and class, and when the loop has ended every detection has
\* been drawn exactly once.
C17_RenderOrder ==
    /\ Len(dlog) <= Len(dclasses)
    /\ \A k \in 1..Len(dlog) :
          dlog[k] = <<Len(dclasses) - k, dclasses[Len(dclasses) - k + 1]>>
    /\ dpc = "done" => Len(dlog) = Len(dclasses)

\* C17 witness: three detections of differing classes have been drawn with
\* a thickness of two, so the inner loop has overwritten i each time.
C17_AllDrawnAfterInnerLoops ==
    /\ dpc = "done"
    /\ Len(dclasses) = 3
    /\ dclasses[1] # dclasses[3]
    /\ dthick = 2
    /\ Len(dlog) = 3

====
